---------------------------- MODULE Spec2Model ----------------------------
(***************************************************************************)
(* Face-liveness capture front end.                                        *)
(*                                                                         *)
(* Two page scripts are modelled, each under its own specification:        *)
(*   Spec     the timeout-enabled script (src/unnamed/part_000):           *)
(*            initializeCamera, startSession/handleTimeout, resetSession,  *)
(*            the startAuthentication loop and updateFacePosition;         *)
(*   AppSpec  src/app.js: startCamera, processFrame, updateUI;             *)
(*   UISpec   AppSpec with updateUI and handleSuccessfulAuthentication     *)
(*            called directly;                                             *)
(*   GeometrySpec, FaceSpec  the functions that compute the capture        *)
(*            region and classify a face rectangle, called on their own.   *)
(*                                                                         *)
(* Time.  The scripts only ever compare Date.now() with a stored           *)
(* timestamp, and arm timers with a fixed delay.  The model therefore      *)
(* keeps, instead of the absolute clock, the time elapsed since each       *)
(* stored timestamp (saturating at the largest delay it is compared        *)
(* with) and the time remaining on each pending timer (saturating at 0:    *)
(* a due timer may run arbitrarily late).  Tick advances all of them by    *)
(* TickMs milliseconds.                                                    *)
(*                                                                         *)
(* Timer handles.  Browsers never reuse a timer id, so a variable that     *)
(* holds a handle is "null", "pending" (the handle of a timer that is      *)
(* still armed; that timer carries cur = TRUE) or "fired" (a non-null      *)
(* handle whose timer already ran: clearTimeout on it does nothing).       *)
(***************************************************************************)
EXTENDS Integers, Sequences, FiniteSets, Bags, TLC

\* ------------------------------------------------------------------ bounds
TickMs == 500        \* granularity of the passage of time, in ms
AppTickMs == 6000    \* the same for app.js, whose session lasts 30 s
MaxChains == 2       \* startAuthentication chains alive at the same time
MaxFrameChains == 2  \* processFrame chains (app.js) alive at the same time
MaxUICalls == 2      \* suspended async calls (app.js) when updateUI is called
MaxTimestamp == 2    \* the values Date.now() takes in the events for the host

\* ------------------------------------------- constants of part_000
REQUIRED_LIVE_FRAMES == 5
FRAME_INTERVAL == 200
SESSION_TIMEOUT == 10000
STATUS_DEBOUNCE_TIME == 1000

\* ------------------------------------------- constants of app.js
MIN_FRAME_INTERVAL == 200
RETRY_DELAY == 1000
CONFIG_SESSION_TIMEOUT == 30000   \* CONFIG.SESSION_TIMEOUT
STABILIZE_DELAY == 500       \* startCamera: wait for video to stabilize
UI_DEBOUNCE == 300           \* updateUI: now - lastUIUpdate < 300
UI_BUSY_WAIT == 300          \* updateUI: wait while transitioning
UI_TRANSITION == 50          \* updateUI: wait for transition
UI_SETTLE == 300             \* updateUI: wait after the update

WAITING == "waiting"
ANALYZING == "analyzing"
ERROR == "error"

MONITORING == "monitoring"
AUTHENTICATED == "authenticated"
TIMEOUT == "timeout"
AUTH_STATE == {MONITORING, AUTHENTICATED, TIMEOUT}

MULTI_FACE_MESSAGE == "Keep only one face in the oval"

\* The values of result.liveness_message that the script tells apart.
LivenessMessages == {MULTI_FACE_MESSAGE, "liveness message"}

\* CONFIG.MIN_LIVENESS_CONFIDENCE (0.6) and the confidences a result may
\* carry, in hundredths.
MIN_LIVENESS_CONFIDENCE == 60
Confidences == {30, 60}

\* A server result without an error field, as updateFacePosition reads it.
Results == [is_live : BOOLEAN, liveness_message : LivenessMessages,
            confidence : Confidences]

\* What one pass over the top of startAuthentication finds:
\*   "notready"  video.readyState # HAVE_ENOUGH_DATA
\*   "throw"     captureFrame throws (video dimensions not available)
\*   "null"      captureFrame returns null (drawImage/toDataURL failed)
\*   "ok"        captureFrame returns a frame
Frames == {"notready", "throw", "null", "ok"}

Min(a, b) == IF a < b THEN a ELSE b
Max(a, b) == IF a > b THEN a ELSE b

VARIABLES
    \* ---- part_000 globals
    isRunning,            \* let isRunning
    authenticationLoop,   \* let authenticationLoop: "null" | "pending" | "fired"
    liveFrameCount,       \* let liveFrameCount
    sessionTimer,         \* let sessionTimer: "null" | "pending" | "fired"
    currentState,         \* let currentState
    statusAge,            \* Date.now() - lastStatusUpdate, saturating
    \* ---- part_000 environment
    chains,               \* bag of startAuthentication chains: a pending
                          \* setTimeout(startAuthentication) or a call awaiting
                          \* fetch / response.json(); stale: its frame was
                          \* captured before the last resetSession (marked
                          \* in ObservedSpec only)
    sessionTimers,        \* armed session timers [rem, cur]
    cam,                  \* bag of the calls of initializeCamera: pc, where
                          \* the call is ("awaiting" | "returned"), and
                          \* stream, the stream it got from getUserMedia
                          \* ("none" | "live" | "stopped": its tracks)
    statusText,           \* statusDisplay.textContent
    failureAge,           \* time since a failed cycle last changed
                          \* statusDisplay.textContent, saturating at the
                          \* shorter debounce interval
    overlayActive,        \* .timeout-overlay has class 'active'
    notified,             \* statuses passed to notifyFlutter by the last step
    successSent,          \* a 'success' event has been sent since the last
                          \* call of resetSession (since the page loaded,
                          \* before the first); kept in ObservedSpec only
    \* ---- app.js
    state,                \* const state = {...}, with the status text
    tasks,                \* bag of suspended async calls: startCamera, and
                          \* updateUI on behalf of its caller
    frameTimers,          \* bag of pending setTimeout(() => rAF(processFrame))
    event,                \* what the last step did (see NoEvent)
    \* ---- the geometry and classification functions
    call                  \* the last call of one of them: name, arguments, result

partVars == <<isRunning, authenticationLoop, liveFrameCount, sessionTimer,
              currentState, statusAge, chains, sessionTimers, cam,
              statusText, failureAge, overlayActive, notified, successSent>>
appVars == <<state, tasks, frameTimers, event>>
vars == <<partVars, appVars, call>>


\* ===================================================================
\*                 part_000: the timeout-enabled script
\* ===================================================================

\* The globals a handler reads and writes, gathered in one record so that
\* the functions of the script compose as they do in the source.
Globals ==
    [isRunning |-> isRunning, authenticationLoop |-> authenticationLoop,
     liveFrameCount |-> liveFrameCount, sessionTimer |-> sessionTimer,
     currentState |-> currentState, statusAge |-> statusAge,
     chains |-> chains, sessionTimers |-> sessionTimers,
     statusText |-> statusText, failureAge |-> failureAge,
     overlayActive |-> overlayActive, notified |-> <<>>,
     successSent |-> successSent]

Assign(s) ==
    /\ isRunning' = s.isRunning
    /\ authenticationLoop' = s.authenticationLoop
    /\ liveFrameCount' = s.liveFrameCount
    /\ sessionTimer' = s.sessionTimer
    /\ currentState' = s.currentState
    /\ statusAge' = s.statusAge
    /\ chains' = s.chains
    /\ sessionTimers' = s.sessionTimers
    /\ statusText' = s.statusText
    /\ failureAge' = s.failureAge
    /\ overlayActive' = s.overlayActive
    /\ notified' = s.notified
    /\ successSent' = s.successSent

\* notifyFlutter(message): the status of the event handed to the host shell.
notifyFlutter(s, status) == [s EXCEPT !.notified = Append(@, status)]

\* Status st is among the events the step sent to the host.
Sent(st, events) == \E i \in 1..Len(events) : events[i] = st

\* clearTimeout(authenticationLoop): the pending loop callback the handle
\* names, if it is still pending, is dropped.
ClearLoopTimer(b) == b (-) SetToBag({c \in BagToSet(b) : c.cur})

\* authenticationLoop = setTimeout(startAuthentication, FRAME_INTERVAL):
\* the handle now names the new callback and no longer any older one.
Uncur(c) == [c EXCEPT !.cur = FALSE]
ScheduleLoop(s) ==
    [s EXCEPT !.chains = BagOfAll(Uncur, @)
                  (+) SetToBag({[pc |-> "timer", rem |-> FRAME_INTERVAL, cur |-> TRUE,
                                stale |-> FALSE]}),
              !.authenticationLoop = "pending"]

\* The global resetUI(): clears the classes, the status text and the hint.
resetUI(s) == [s EXCEPT !.statusText = ""]

\* handleTimeout()
handleTimeout(s) ==
    LET s1 == [s EXCEPT !.currentState = TIMEOUT, !.isRunning = FALSE]
        s2 == IF s1.authenticationLoop # "null"
              THEN [s1 EXCEPT !.chains = ClearLoopTimer(@),
                              !.authenticationLoop = "null"]
              ELSE s1
        s3 == [s2 EXCEPT !.overlayActive = TRUE]
    IN notifyFlutter(s3, "timeout")

\* clearTimeout(sessionTimer): the armed timer the handle names, if any,
\* is dropped.
ClearSessionTimerNoop(ts) == ts
ClearSessionTimer(ts) == ts \ {t \in ts : t.cur}

\* sessionTimer = setTimeout(..., SESSION_TIMEOUT): the handle now names the
\* new timer and no longer any older one.
ArmSessionTimer(ts) ==
    {Uncur(t) : t \in ts} \cup {[rem |-> SESSION_TIMEOUT, cur |-> TRUE]}

\* startSession()
startSession(s) ==
    LET s1 == IF s.sessionTimer # "null"
              THEN [s EXCEPT !.sessionTimers = ClearSessionTimer(@)]
              ELSE s
        s2 == [s1 EXCEPT !.currentState = MONITORING]
    IN [s2 EXCEPT !.sessionTimers = ArmSessionTimer(@),
                  !.sessionTimer = "pending"]

\* The callback of the session timer.
SessionTimerCallbackNoCheck(s) == handleTimeout(s)
SessionTimerCallbackInverted(s) ==
    IF s.currentState = AUTHENTICATED THEN handleTimeout(s) ELSE s
SessionTimerCallback(s) ==
    IF s.currentState # AUTHENTICATED THEN handleTimeout(s) ELSE s

\* updateFacePosition(result), for a result that passed the error checks.
NotLiveByFlagOnly(result) == ~result.is_live
NotLive(result) ==
    ~result.is_live \/ result.liveness_message = MULTI_FACE_MESSAGE

\* The debounce of each branch: STATUS_DEBOUNCE_TIME for a result that is
\* not live, "shorter debounce for positive states" for a live one.
NotLiveDebounce == STATUS_DEBOUNCE_TIME
LiveDebounceAsNotLive == STATUS_DEBOUNCE_TIME
LiveDebounce == STATUS_DEBOUNCE_TIME \div 2

updateFacePosition(s, result) ==
    IF NotLive(result)
    THEN IF s.statusAge >= NotLiveDebounce
         THEN \* inner resetUI(), then the status message
              [s EXCEPT !.liveFrameCount = 0,
                        !.statusText = result.liveness_message,
                        !.statusAge = 0]
         ELSE s
    ELSE IF s.statusAge >= LiveDebounce
         THEN LET s1 == [s EXCEPT !.statusText = result.liveness_message,
                                  !.statusAge = 0]
              IN IF s1.currentState # AUTHENTICATED
                 THEN LET s2 == [s1 EXCEPT !.liveFrameCount = @ + 1]
                      IN IF s2.liveFrameCount >= REQUIRED_LIVE_FRAMES
                         THEN LET s3 == notifyFlutter(
                                            [s2 EXCEPT !.currentState = AUTHENTICATED,
                                                       !.statusText = "Welcome!"],
                                            "success")
                              IN IF s3.authenticationLoop # "null"
                                 THEN [s3 EXCEPT !.chains = ClearLoopTimer(@),
                                                 !.authenticationLoop = "null"]
                                 ELSE s3
                         ELSE [s2 EXCEPT !.statusText = "Face Detected"]
                 ELSE s1
         ELSE s

\* The tail of startAuthentication: schedule the next check if still
\* running and not authenticated.
ScheduleNext(s) ==
    IF s.isRunning /\ s.currentState # AUTHENTICATED THEN ScheduleLoop(s) ELSE s

\* The catch block of startAuthentication, then its tail.
\* The catch block's resetUI(); failureAge restarts when it changes the text.
ClearStatus(s) ==
    [resetUI(s) EXCEPT !.failureAge = IF s.statusText # "" THEN 0 ELSE @]

CatchErrorAndStop(s, serverError) ==
    LET s1 == notifyFlutter(s, "error")
    IN IF serverError THEN ClearStatus(s1) ELSE s1
CatchError(s, serverError) ==
    LET s1 == notifyFlutter(s, "error")
    IN ScheduleNext(IF serverError THEN ClearStatus(s1) ELSE s1)

\* startAuthentication() from its entry to its first real suspension (the
\* fetch): captureFrame has no suspension of its own, so the continuation
\* after `await captureFrame()` runs before any other task.
startAuthentication(s, f) ==
    IF ~s.isRunning THEN s
    ELSE IF f = "notready" THEN ScheduleLoop(s)
    ELSE IF s.currentState = AUTHENTICATED THEN s
    ELSE IF f = "throw" THEN CatchError(s, FALSE)
    ELSE IF f = "null" THEN ScheduleLoop(s)
    ELSE [s EXCEPT !.chains = @ (+) SetToBag({[pc |-> "fetch", rem |-> 0, cur |-> FALSE,
                                               stale |-> FALSE]})]

\* resetSession()
resetSessionKeepsCount(s, f) ==
    LET s1 == [s EXCEPT !.isRunning = TRUE, !.currentState = MONITORING]
    IN startAuthentication(startSession(resetUI(s1)), f)
resetSession(s, f) ==
    LET s1 == [s EXCEPT !.isRunning = TRUE, !.currentState = MONITORING,
                        !.liveFrameCount = 0]
    IN startAuthentication(startSession(resetUI(s1)), f)

\* The tail of initializeCamera, after `await video.play()`.
CameraReady(s, f) ==
    LET s1 == [s EXCEPT !.isRunning = TRUE, !.currentState = MONITORING,
                        !.liveFrameCount = 0,
                        !.statusText = "Position your face in the oval"]
    IN startAuthentication(startSession(s1), f)

\* The catch block of initializeCamera.
CameraError(s) == [s EXCEPT !.statusText = "Camera error"]


\* ------------------------------------------------------------ actions

\* Both DOMContentLoaded handlers run: the first builds the timeout overlay
\* and calls initializeCamera(), the second calls initializeCamera() again.
\* Each call runs to `await getUserMedia(...)`, or throws at once where
\* media devices are not supported.
DOMContentLoaded(supported) ==
    /\ cam = EmptyBag
    /\ cam' = LET c == [pc |-> IF supported THEN "awaiting" ELSE "returned",
                        stream |-> "none"]
              IN SetToBag({c}) (+) SetToBag({c})
    /\ Assign(IF supported THEN Globals ELSE CameraError(Globals))
    /\ UNCHANGED <<appVars, call>>

\* The awaits of a call c of initializeCamera (getUserMedia, loadedmetadata,
\* play) touch only the video element; the call is "awaiting" until the last
\* of them settles, or for ever: the second call to install
\* video.onloadedmetadata replaces the resolver of the first.  When they
\* have all resolved the session starts with the stream the call got and
\* made video.srcObject (`video.srcObject = stream`, which lets go of the
\* stream the video had); when getUserMedia rejects there is no stream and
\* the catch block runs.  Nothing in the script stops the tracks of a stream.
CameraSettles(c, ok, f) ==
    /\ BagIn(c, cam)
    /\ c.pc = "awaiting"
    /\ BagCardinality(chains) < MaxChains
    /\ cam' = (cam (-) SetToBag({c}))
                 (+) SetToBag({[pc |-> "returned",
                                stream |-> IF ok THEN "live" ELSE "none"]})
    /\ Assign(IF ok THEN CameraReady(Globals, f) ELSE CameraError(Globals))
    /\ UNCHANGED <<appVars, call>>

\* A pending setTimeout(startAuthentication, FRAME_INTERVAL) comes due and runs.
LoopTimerFire(c, f) ==
    /\ BagIn(c, chains)
    /\ c.pc = "timer" /\ c.rem = 0
    /\ LET s0 == [Globals EXCEPT
                      !.chains = @ (-) SetToBag({c}),
                      !.authenticationLoop = IF c.cur THEN "fired" ELSE @]
       IN Assign(startAuthentication(s0, f))
    /\ UNCHANGED <<cam, appVars, call>>

\* The fetch of a cycle settles: "ok" (2xx, go on to response.json()),
\* "status" (a non-2xx response) or "reject" (network failure).
FetchOutcomes == {"ok", "status", "reject"}
FetchSettles(c, o) ==
    /\ BagIn(c, chains)
    /\ c.pc = "fetch"
    /\ LET s0 == [Globals EXCEPT !.chains = @ (-) SetToBag({c})]
       IN Assign(CASE o = "ok" ->
                        [s0 EXCEPT !.chains = @ (+) SetToBag({[c EXCEPT !.pc = "json"]})]
                   [] o = "status" -> CatchError(notifyFlutter(s0, "error"), TRUE)
                   [] o = "reject" -> CatchError(s0, FALSE))
    /\ UNCHANGED <<cam, appVars, call>>

\* response.json() settles without a usable result: "reject" (the body is
\* not JSON, or is null) or "error" (the result carries an error field).
JsonOutcomes == {"reject", "error"}
JsonFails(c, o) ==
    /\ BagIn(c, chains)
    /\ c.pc = "json"
    /\ LET s0 == [Globals EXCEPT !.chains = @ (-) SetToBag({c})]
       IN Assign(CASE o = "reject" -> CatchError(s0, FALSE)
                   [] o = "error" -> ScheduleLoop(notifyFlutter(s0, "error")))
    /\ UNCHANGED <<cam, appVars, call>>

\* response.json() yields a result: updateFacePosition, then the tail.
ProcessResult(c, result) ==
    /\ BagIn(c, chains)
    /\ c.pc = "json"
    /\ LET s0 == [Globals EXCEPT !.chains = @ (-) SetToBag({c})]
       IN Assign(ScheduleNext(updateFacePosition(s0, result)))
    /\ UNCHANGED <<cam, appVars, call>>

\* An armed session timer comes due and its callback runs.
SessionTimerFire(t) ==
    /\ t \in sessionTimers
    /\ t.rem = 0
    /\ LET s0 == [Globals EXCEPT
                      !.sessionTimers = @ \ {t},
                      !.sessionTimer = IF t.cur THEN "fired" ELSE @]
       IN Assign(SessionTimerCallback(s0))
    /\ UNCHANGED <<cam, appVars, call>>

\* The retry button of the timeout overlay (clickable while it is shown).
ClickRetry(f) ==
    /\ overlayActive
    /\ BagCardinality(chains) < MaxChains
    /\ Assign([resetSession(Globals, f) EXCEPT !.overlayActive = FALSE])
    /\ UNCHANGED <<cam, appVars, call>>

\* The same click, observed: a request in flight when resetSession() runs
\* carries a frame captured before it, and its chain is marked stale on the
\* way; and the events sent from here on are those sent since the last
\* resetSession.  Nothing in the script reads either mark.
Outdate(c) == [c EXCEPT !.stale = c.pc \in {"fetch", "json"}]
ClickRetryObserved(f) ==
    /\ overlayActive
    /\ BagCardinality(chains) < MaxChains
    /\ Assign([resetSession([Globals EXCEPT !.chains = BagOfAll(Outdate, @),
                                            !.successSent = FALSE], f)
                  EXCEPT !.overlayActive = FALSE])
    /\ UNCHANGED <<cam, appVars, call>>

\* The same result, observed: a 'success' event that updateFacePosition
\* sends (no other function sends one) is remembered.
ProcessResultObserved(c, result) ==
    /\ BagIn(c, chains)
    /\ c.pc = "json"
    /\ LET s0 == [Globals EXCEPT !.chains = @ (-) SetToBag({c})]
           s1 == ScheduleNext(updateFacePosition(s0, result))
       IN Assign([s1 EXCEPT !.successSent = @ \/ Sent("success", s1.notified)])
    /\ UNCHANGED <<cam, appVars, call>>

\* The fingerprint / OTP buttons of the timeout overlay.
ClickSwitchAuth ==
    /\ overlayActive
    /\ Assign(notifyFlutter(Globals, "switch_auth"))
    /\ UNCHANGED <<cam, appVars, call>>

\* TickMs milliseconds pass.
Elapse(c) == [c EXCEPT !.rem = Max(0, @ - TickMs)]
Tick ==
    /\ chains' = BagOfAll(Elapse, chains)
    /\ sessionTimers' = {Elapse(t) : t \in sessionTimers}
    /\ statusAge' = Min(statusAge + TickMs, STATUS_DEBOUNCE_TIME)
    /\ failureAge' = Min(failureAge + TickMs, STATUS_DEBOUNCE_TIME \div 2)
    /\ notified' = <<>>
    /\ UNCHANGED <<isRunning, authenticationLoop, liveFrameCount, sessionTimer,
                   currentState, cam, statusText, overlayActive, successSent,
                   appVars, call>>

\* ===================================================================
\*                              app.js
\* ===================================================================

\* What a step did: event.call, how a call of processFrame went ("none" when
\* the step made no call); event.ended, how a cycle ended ("none" when none
\* did); event.scheduled, how many next processFrame calls it scheduled;
\* event.ui, how a call of updateUI(event.uiState, event.uiMessage) went
\* ("none" when the step made no call); event.auth, how a call of
\* handleSuccessfulAuthentication ended ("none" when none did).
NoEvent == [call |-> "none", ended |-> "none", scheduled |-> 0,
            ui |-> "none", uiState |-> "", uiMessage |-> "", auth |-> "none"]

\* The mutable state a handler of app.js reads and writes.
AppGlobals ==
    [state |-> state, tasks |-> tasks, frameTimers |-> frameTimers,
     event |-> NoEvent]

AppAssign(a) ==
    /\ state' = a.state
    /\ tasks' = a.tasks
    /\ frameTimers' = a.frameTimers
    /\ event' = a.event

\* What captureFrame does in a cycle: "ok" (returns a frame) or "throw"
\* (no video dimensions, or drawImage failed).
Captures == {"ok", "throw"}

\* setTimeout(() => requestAnimationFrame(processFrame), delay)
ScheduleFrame(a, delay) ==
    [a EXCEPT !.frameTimers = @ (+) SetToBag({[pc |-> "timer", rem |-> delay]}),
              !.event.scheduled = @ + 1]

\* Suspend an async call at `await new Promise(r => setTimeout(r, delay))`.
Suspend(a, fn, pc, delay, newState, message) ==
    [a EXCEPT !.tasks = @ (+) SetToBag({[fn |-> fn, pc |-> pc, rem |-> delay,
                                         newState |-> newState, message |-> message]})]

RECURSIVE processFrame(_, _)
RECURSIVE AfterUpdateUI(_, _, _)

\* elements.statusDisplay.textContent = message || 'Position your face ...'
Displayed(message) ==
    IF message = "" THEN "Position your face in the oval" ELSE message

\* "Remove previous state": the two classList.remove calls of updateUI.
OvalStates == {"analyzing", "success", "no-face", "detected", "error"}
StatusStates == {"analyzing", "success", "error", "no-face", "visible"}
RemovePreviousState(st) ==
    [st EXCEPT !.ovalClasses = @ \ OvalStates,
               !.statusClasses = @ \ StatusStates]

\* message.includes('Processing')
IncludesProcessing(message) == message = "Processing..."

\* "Update state-specific UI" and "Update state and messages": the switch
\* of updateUI with its classList.add calls, then the assignments.
NewOvalState(newState, message) ==
    CASE newState = ANALYZING -> "analyzing"
      [] newState = AUTHENTICATED -> "success"
      [] newState = ERROR -> "error"
      [] OTHER -> IF IncludesProcessing(message) THEN "detected" ELSE "no-face"
NewStatusClasses(newState) ==
    CASE newState = ANALYZING -> {"analyzing", "visible"}
      [] newState = AUTHENTICATED -> {"success", "visible"}
      [] newState = ERROR -> {"error", "visible"}
      [] OTHER -> {"visible"}
ApplyStateAppending(st, newState, message, hint) ==
    [st EXCEPT !.ovalClasses = @ \cup {NewOvalState(newState, message)},
               !.statusClasses = @ \cup NewStatusClasses(newState),
               !.statusText = @ \o Displayed(message),
               !.hintText = hint,
               !.currentState = newState]
ApplyState(st, newState, message, hint) ==
    [st EXCEPT !.ovalClasses = @ \cup {NewOvalState(newState, message)},
               !.statusClasses = @ \cup NewStatusClasses(newState),
               !.statusText = Displayed(message),
               !.hintText = hint,
               !.currentState = newState]

\* The hint each caller passes: startCamera's catch block passes one, the
\* other callers leave the default ''.
Hint(fn) ==
    IF fn = "startCameraCatch" THEN "Please allow camera access and refresh"
    ELSE ""

\* updateUI, from `state.ovalState.transitioning = true` to the 50 ms wait.
updateUIBegin(a, fn, newState, message) ==
    Suspend([a EXCEPT !.state = [RemovePreviousState(@) EXCEPT !.transitioning = TRUE]],
            fn, "transition", UI_TRANSITION, newState, message)

\* The debounce test of updateUI: now - state.lastUIUpdate < 300.
DebouncedNever(st) == FALSE
Debounced(st) == st.uiAge < UI_DEBOUNCE

\* updateUI(newState, message) called by fn, up to its first suspension
\* or, when it returns at once, on into the caller.
updateUI(a, fn, newState, message, cap) ==
    LET a0 == [a EXCEPT !.event.uiState = newState, !.event.uiMessage = message]
    IN IF a0.state.currentState = AUTHENTICATED
       THEN AfterUpdateUI([a0 EXCEPT !.event.ui = "frozen"], fn, cap)
       ELSE IF Debounced(a0.state)
       THEN AfterUpdateUI([a0 EXCEPT !.event.ui = "debounced"], fn, cap)
       ELSE LET a1 == [a0 EXCEPT !.state.uiAge = 0, !.state.accepted = newState,
                                 !.event.ui = "passed"]
            IN IF a1.state.transitioning
               THEN Suspend(a1, fn, "busy", UI_BUSY_WAIT, newState, message)
               ELSE updateUIBegin(a1, fn, newState, message)

\* The guard at the top of processFrame.
RefusesWhenStopped(st) == ~st.isRunning
Refuses(st) == ~st.isRunning \/ st.isProcessing

\* processFrame(); cap is what captureFrame does if the call gets that far.
\* captureFrame never suspends, so the call runs on into the catch block
\* before any other task.
processFrame(a, cap) ==
    IF Refuses(a.state)
    THEN [a EXCEPT !.event.call = "refused"]
    ELSE LET a1 == [a EXCEPT !.state.isProcessing = TRUE]
         IN IF a1.state.processedAge < MIN_FRAME_INTERVAL
            THEN LET a2 == [a1 EXCEPT !.state.isProcessing = FALSE,
                                      !.event.call = "skipped", !.event.ended = "skip"]
                 IN IF a2.state.isRunning
                    THEN ScheduleFrame(a2, MIN_FRAME_INTERVAL) ELSE a2
            ELSE IF cap = "ok"
            THEN \* the rest of the try block is commented out
                 [a1 EXCEPT !.event.call = "captured", !.event.ended = "success"]
            ELSE updateUI([a1 EXCEPT !.state.framesCollected = 0,
                                     !.event.call = "captured"],
                          "processFrame", ERROR, "Error processing frame", cap)

\* The caller of updateUI resumes after `await updateUI(...)`.
AfterUpdateUI(a, fn, cap) ==
    CASE fn = "startCamera" -> processFrame(a, cap)
      [] fn = "startCameraCatch" -> a
      [] fn = "external" -> a
      [] fn = "handleSuccessfulAuthentication" ->
            \* the tracks of state.stream are stopped, the host is notified
            [a EXCEPT !.state.stream = IF @ # "null" THEN "stopped" ELSE @,
                      !.event.auth = "notified"]
      [] fn = "processFrame" ->
            LET a1 == [a EXCEPT !.state.isProcessing = FALSE,
                                !.event.ended = "error"]
            IN IF a1.state.isRunning /\ a1.state.currentState # AUTHENTICATED
               THEN ScheduleFrame(a1, RETRY_DELAY) ELSE a1

\* handleSuccessfulAuthentication(name); name.split(' ')[0] is the first name.
Names == {"", "Ann Lee"}
FirstName(name) == IF name = "Ann Lee" THEN "Ann" ELSE name
handleSuccessfulAuthentication(a, name, cap) ==
    IF name = "" THEN [a EXCEPT !.event.auth = "no name"]
    ELSE updateUI([a EXCEPT !.state.isRunning = FALSE,
                            !.state.isProcessing = FALSE],
                  "handleSuccessfulAuthentication", AUTHENTICATED,
                  "Welcome, " \o FirstName(name) \o "!", cap)

\* DOMContentLoaded: initializeApp, initializeElements, startCamera up to
\* `await getUserMedia(...)`.
AppLoaded ==
    /\ tasks = EmptyBag /\ ~state.loaded
    /\ AppAssign(Suspend([AppGlobals EXCEPT !.state.loaded = TRUE],
                         "startCamera", "getUserMedia", 0, WAITING, ""))
    /\ UNCHANGED <<partVars, call>>

\* getUserMedia settles for startCamera.
AppGetUserMedia(t, ok, cap) ==
    /\ BagIn(t, tasks)
    /\ t.fn = "startCamera" /\ t.pc = "getUserMedia"
    /\ LET a0 == [AppGlobals EXCEPT !.tasks = @ (-) SetToBag({t})]
       IN AppAssign(IF ok
                    THEN Suspend([a0 EXCEPT !.state.stream = "live"],
                                 "startCamera", "loadedmetadata", 0, WAITING, "")
                    ELSE updateUI(a0, "startCameraCatch", ERROR,
                                  "Camera access denied", cap))
    /\ UNCHANGED <<partVars, call>>

\* The video fires loadedmetadata: play(), then the 500 ms wait.
AppLoadedMetadata(t) ==
    /\ BagIn(t, tasks)
    /\ t.fn = "startCamera" /\ t.pc = "loadedmetadata"
    /\ AppAssign(Suspend([AppGlobals EXCEPT !.tasks = @ (-) SetToBag({t})],
                         "startCamera", "stabilize", STABILIZE_DELAY, WAITING, ""))
    /\ UNCHANGED <<partVars, call>>

\* The 500 ms wait of startCamera is over: the session starts.
AppStartSession(t, cap) ==
    /\ BagIn(t, tasks)
    /\ t.fn = "startCamera" /\ t.pc = "stabilize" /\ t.rem = 0
    /\ LET a0 == [AppGlobals EXCEPT !.tasks = @ (-) SetToBag({t}),
                                    !.state.isRunning = TRUE,
                                    !.state.sessionId = "session",
                                    !.state.sessionAge = 0]
       IN AppAssign(updateUI(a0, "startCamera", WAITING,
                             "Position your face in the oval", cap))
    /\ UNCHANGED <<partVars, call>>

\* A wait inside updateUI is over and updateUI runs to its next suspension,
\* or to its end and on into its caller.
UpdateUIResume(t, cap) ==
    /\ BagIn(t, tasks)
    /\ t.pc \in {"busy", "transition", "settle"} /\ t.rem = 0
    /\ LET a0 == [AppGlobals EXCEPT !.tasks = @ (-) SetToBag({t})]
       IN AppAssign(
            CASE t.pc = "busy" -> updateUIBegin(a0, t.fn, t.newState, t.message)
              [] t.pc = "transition" ->
                    Suspend([a0 EXCEPT !.state = ApplyState(@, t.newState, t.message,
                                                            Hint(t.fn))],
                            t.fn, "settle", UI_SETTLE, t.newState, t.message)
              [] t.pc = "settle" ->
                    AfterUpdateUI([a0 EXCEPT !.state.transitioning = FALSE],
                                  t.fn, cap))
    /\ UNCHANGED <<partVars, call>>

\* A pending setTimeout comes due: its callback requests an animation frame.
FrameTimerFire(t) ==
    /\ BagIn(t, frameTimers)
    /\ t.pc = "timer" /\ t.rem = 0
    /\ AppAssign([AppGlobals EXCEPT
                     !.frameTimers = (@ (-) SetToBag({t}))
                                       (+) SetToBag({[t EXCEPT !.pc = "raf"]})])
    /\ UNCHANGED <<partVars, call>>

\* The requested animation frame arrives and calls processFrame.
AnimationFrame(t, cap) ==
    /\ BagIn(t, frameTimers)
    /\ t.pc = "raf"
    /\ AppAssign(processFrame([AppGlobals EXCEPT !.frameTimers = @ (-) SetToBag({t})],
                              cap))
    /\ UNCHANGED <<partVars, call>>

\* processFrame is a global function: a call from outside the loop, made
\* once the page has started; the guard at its top is there for such calls.
CallProcessFrame(cap) ==
    /\ state.isRunning
    /\ BagCardinality(frameTimers) + BagCardinality(tasks) < MaxFrameChains
    /\ AppAssign(processFrame(AppGlobals, cap))
    /\ UNCHANGED <<partVars, call>>

\* updateUI and handleSuccessfulAuthentication are global functions too.
\* The calls of them that frame results lead to are commented out in
\* processFrame, so they are called here as those calls would: in a running
\* session, with any target state and message.
UIPhases == {WAITING, ANALYZING}
UIMessages == {"", "Keep your face still"}
CallUpdateUI(newState, message) ==
    /\ state.isRunning
    /\ BagCardinality(tasks) < MaxUICalls
    /\ AppAssign(updateUI(AppGlobals, "external", newState, message, "ok"))
    /\ UNCHANGED <<partVars, call>>

CallHandleSuccessfulAuthentication(name) ==
    /\ state.isRunning
    /\ BagCardinality(tasks) < MaxUICalls
    /\ AppAssign(handleSuccessfulAuthentication(AppGlobals, name, "ok"))
    /\ UNCHANGED <<partVars, call>>

\* AppTickMs milliseconds pass.
AppElapse(c) == [c EXCEPT !.rem = Max(0, @ - AppTickMs)]
AppTick ==
    /\ tasks' = BagOfAll(AppElapse, tasks)
    /\ frameTimers' = BagOfAll(AppElapse, frameTimers)
    /\ state' = [state EXCEPT
                    !.uiAge = Min(@ + AppTickMs, UI_DEBOUNCE),
                    !.sessionAge = IF state.sessionId = "null" THEN @
                                   ELSE Min(@ + AppTickMs, CONFIG_SESSION_TIMEOUT)]
    /\ event' = NoEvent
    /\ UNCHANGED <<partVars, call>>

InitApp ==
    /\ state = [isRunning |-> FALSE, isProcessing |-> FALSE,
                currentState |-> WAITING, framesCollected |-> 0,
                processedAge |-> MIN_FRAME_INTERVAL,  \* lastProcessedTime: 0
                uiAge |-> UI_DEBOUNCE,                \* lastUIUpdate: 0
                accepted |-> "none",  \* the newState of the call of updateUI
                                      \* that last assigned lastUIUpdate
                transitioning |-> FALSE,
                sessionTimer |-> "null",              \* sessionTimer: null
                sessionId |-> "null",                 \* sessionId: null
                sessionAge |-> 0,   \* Date.now() - the time held in sessionId
                stream |-> "null",  \* stream: "null" | "live" | "stopped"
                ovalClasses |-> {"oval-border"},   \* of elements.ovalBorder
                statusClasses |-> {"status"},      \* of elements.statusDisplay
                statusText |-> "", hintText |-> "", loaded |-> FALSE]
    /\ tasks = EmptyBag
    /\ frameTimers = EmptyBag
    /\ event = NoEvent

\* The page as it runs by itself.
AppRuns ==
    \/ AppLoaded
    \/ \E t \in BagToSet(tasks), ok \in BOOLEAN, cap \in Captures : AppGetUserMedia(t, ok, cap)
    \/ \E t \in BagToSet(tasks) : AppLoadedMetadata(t)
    \/ \E t \in BagToSet(tasks), cap \in Captures : AppStartSession(t, cap)
    \/ \E t \in BagToSet(tasks), cap \in Captures : UpdateUIResume(t, cap)
    \/ \E t \in BagToSet(frameTimers) : FrameTimerFire(t)
    \/ \E t \in BagToSet(frameTimers), cap \in Captures : AnimationFrame(t, cap)
    \/ AppTick

AppNext ==
    \/ AppRuns
    \/ \E cap \in Captures : CallProcessFrame(cap)


InitPart ==
    /\ isRunning = FALSE
    /\ authenticationLoop = "null"
    /\ liveFrameCount = 0
    /\ sessionTimer = "null"
    /\ currentState = MONITORING
    /\ statusAge = STATUS_DEBOUNCE_TIME     \* lastStatusUpdate = 0
    /\ chains = EmptyBag
    /\ sessionTimers = {}
    /\ cam = EmptyBag
    /\ statusText = ""
    /\ failureAge = STATUS_DEBOUNCE_TIME \div 2    \* no failure yet
    /\ overlayActive = FALSE
    /\ notified = <<>>
    /\ successSent = FALSE

\* ===================================================================
\*          the geometry and classification functions
\* ===================================================================
\* The arithmetic of the scripts is on doubles; it is done here on exact
\* fractions p/q of integers, q > 0.

Abs(a) == IF a < 0 THEN -a ELSE a

\* Math.round(p/q): the nearest integer, halves rounded up.
Round(p, q) == (2 * p + q) \div (2 * q)

\* A rectangle, as getBoundingClientRect() and the server give it.
Rect(x, y, w, h) == [x |-> x, y |-> y, width |-> w, height |-> h]

\* The inputs the functions are called with.
VideoSizes == {<<64, 48>>, <<48, 64>>, <<48, 48>>}   \* videoWidth, videoHeight
VideoRects == {Rect(0, 0, 32, 24), Rect(4, 2, 24, 32), Rect(0, 0, 64, 64)}
OvalRects == {Rect(l, t, w, 16) : l \in {-2, 8, 20}, t \in {0, 6}, w \in {12, 24}}
Screens == {<<360, 640>>, <<1280, 800>>}              \* innerWidth, innerHeight
Ovals == {Rect(0, 0, 20, 20), Rect(4, 2, 20, 30)}
FaceRects == {Rect(x, y, w, h) : x \in {-2, 0, 5, 10, 11, 20}, y \in {0, 5, 10, 18},
                                 w \in {4, 10, 18}, h \in {4, 10, 18}}
\* result.face_rect: absent (<<>>) or one rectangle.
MaybeFaceRects == {<<>>} \cup {<<r>> : r \in FaceRects}

\* ---- app.js, captureFrame: ovalData
AppDynamicPadding(screen) ==
    LET sw == screen[1]
        sh == screen[2]
        baseDen == IF Min(sw, sh) < 768 THEN 20 ELSE 10   \* basePadding = 1/baseDen
    IN IF sw > sh THEN <<1, baseDen>> ELSE <<sw, baseDen * sh>>

AppOvalData(video, videoRect, ovalRect, screen) ==
    LET vw == video[1]
        vh == video[2]
        pad == AppDynamicPadding(screen)
    IN Rect(Round((ovalRect.x - videoRect.x) * vw, videoRect.width),
            Round((ovalRect.y - videoRect.y) * vh, videoRect.height),
            Round(ovalRect.width * vw * (pad[2] + pad[1]), videoRect.width * pad[2]),
            Round(ovalRect.height * vh * (pad[2] + pad[1]), videoRect.height * pad[2]))

\* ---- part_000, captureFrame: ovalData
\* targetOvalWidth and targetOvalHeight, in 400ths of a pixel.
PartTargetOval(video) ==
    LET vw == video[1]
        vh == video[2]
        tw == IF vw >= vh THEN 225 * vh ELSE 300 * vw
        th == IF vw >= vh THEN 300 * vh ELSE 399 * vw
    IN <<Min(tw, 340 * vw), Min(th, 340 * vh)>>

PartOvalData(video, videoRect, ovalRect) ==
    LET vw == video[1]
        vh == video[2]
        rw == videoRect.width
        rh == videoRect.height
        dx == ovalRect.x - videoRect.x
        dy == ovalRect.y - videoRect.y
        \* scale = Math.min(vw / rw, vh / rh), as a fraction
        scale == IF vw * rh <= vh * rw THEN <<vw, rw>> ELSE <<vh, rh>>
        letterboxed == rw * vh > vw * rh    \* containerAspect > videoAspect
        \* (d - offset) * scale, with offset = (r - actual) / 2
        x == IF letterboxed
             THEN Round((2 * vh * dx - (rw * vh - rh * vw)) * scale[1], 2 * vh * scale[2])
             ELSE Round(dx * scale[1], scale[2])
        y == IF letterboxed
             THEN Round(dy * scale[1], scale[2])
             ELSE Round((2 * vw * dy - (rh * vw - rw * vh)) * scale[1], 2 * vw * scale[2])
        target == PartTargetOval(video)
    IN Rect(Max(0, x), Max(0, y), Round(target[1], 400), Round(target[2], 400))

\* ---- part_000, updateOvalGuide: window.ovalGuide
\* targetOvalWidth and targetOvalHeight, in 300ths of a pixel.
GuideTargetOval(video) ==
    LET vw == video[1]
        vh == video[2]
        t == IF vw >= vh
             THEN IF 168 * vh > 240 * vw THEN <<240 * vw, 320 * vw>>
                                         ELSE <<168 * vh, 210 * vh>>
             ELSE IF 294 * vw > 240 * vh THEN <<180 * vh, 240 * vh>>
                                         ELSE <<210 * vw, 294 * vw>>
    IN <<Min(t[1], 240 * vw), Min(t[2], 240 * vh)>>

updateOvalGuide(video) ==
    LET target == GuideTargetOval(video)
    IN Rect(Round(300 * video[1] - target[1], 600),
            Round(300 * video[2] - target[2], 600),
            Round(target[1], 300), Round(target[2], 300))

\* ---- app.js, calculateHeadSizeRatio and checkFacePosition
\* Math.PI as a fraction.
PI_NUM == 355
PI_DEN == 113

\* faceArea / ovalArea as a fraction, ovalArea = PI * (width/2) * (height/2).
AreaRatio(ovalData, r) ==
    [num |-> 4 * PI_DEN * r.width * r.height,
     den |-> PI_NUM * ovalData.width * ovalData.height]

calculateHeadSizeRatio(ovalData, faceRect) ==
    IF faceRect = <<>> THEN [num |-> 0, den |-> 1]
    ELSE AreaRatio(ovalData, faceRect[1])

maxDistancePercent == 50
minAreaRatio == 15     \* 0.15, in hundredths
maxAreaRatio == 85     \* 0.85, in hundredths

\* |faceCenter - ovalCenter| / (size / 2) * 100 > limit, on one axis
TooFarOffInclusive(ovalPos, ovalSize, facePos, faceSize, limit) ==
    100 * Abs((2 * facePos + faceSize) - (2 * ovalPos + ovalSize)) >= limit * ovalSize
TooFarOff(ovalPos, ovalSize, facePos, faceSize, limit) ==
    100 * Abs((2 * facePos + faceSize) - (2 * ovalPos + ovalSize)) > limit * ovalSize

\* What the function does with an absent faceRect after its first test:
\* reading faceRect.x throws.
FaceRectMissingThrows(faceRect) == FALSE
FaceRectMissing(faceRect) == faceRect = <<>>

checkFacePosition(ovalData, faceRect) ==
    IF FaceRectMissing(faceRect)
    THEN [isValid |-> FALSE, message |-> "No face detected"]
    ELSE IF faceRect = <<>>
    THEN [isValid |-> FALSE, message |-> "TypeError"]
    ELSE
    LET r == faceRect[1]
        ratio == AreaRatio(ovalData, r)
    IN IF TooFarOff(ovalData.x, ovalData.width, r.x, r.width, maxDistancePercent)
       THEN [isValid |-> FALSE,
             message |-> IF 2 * r.x + r.width < 2 * ovalData.x + ovalData.width
                         THEN "Move your face right" ELSE "Move your face left"]
       ELSE IF TooFarOff(ovalData.y, ovalData.height, r.y, r.height, maxDistancePercent)
       THEN [isValid |-> FALSE,
             message |-> IF 2 * r.y + r.height < 2 * ovalData.y + ovalData.height
                         THEN "Move your face down" ELSE "Move your face up"]
       ELSE IF 100 * ratio.num < minAreaRatio * ratio.den
       THEN [isValid |-> FALSE, message |-> "Move closer to the camera"]
       ELSE IF 100 * ratio.num > maxAreaRatio * ratio.den
       THEN [isValid |-> FALSE, message |-> "Move back from the camera"]
       ELSE [isValid |-> TRUE, message |-> "Face position is good"]

\* ---- the calls
CallRecord(fn, args, result) == [fn |-> fn, args |-> args, result |-> result]

CallAppCaptureFrame(video, videoRect, ovalRect, screen) ==
    /\ call' = CallRecord("app.captureFrame", <<video, videoRect, ovalRect, screen>>,
                          AppOvalData(video, videoRect, ovalRect, screen))
    /\ UNCHANGED <<partVars, appVars>>

CallPartCaptureFrame(video, videoRect, ovalRect) ==
    /\ call' = CallRecord("captureFrame", <<video, videoRect, ovalRect>>,
                          PartOvalData(video, videoRect, ovalRect))
    /\ UNCHANGED <<partVars, appVars>>

CallUpdateOvalGuide(video) ==
    /\ call' = CallRecord("updateOvalGuide", <<video>>, updateOvalGuide(video))
    /\ UNCHANGED <<partVars, appVars>>

CallCheckFacePosition(ovalData, faceRect) ==
    /\ call' = CallRecord("checkFacePosition", <<ovalData, faceRect>>,
                          checkFacePosition(ovalData, faceRect))
    /\ UNCHANGED <<partVars, appVars>>

CallCalculateHeadSizeRatio(ovalData, faceRect) ==
    /\ call' = CallRecord("calculateHeadSizeRatio", <<ovalData, faceRect>>,
                          calculateHeadSizeRatio(ovalData, faceRect))
    /\ UNCHANGED <<partVars, appVars>>

\* ---- the bridge to the host shell
\* The globals the host may have put on the page: window.flutter_inappwebview,
\* window.webkit (absent, an object without messageHandlers, or one whose
\* messageHandlers has the authenticationComplete handler) and
\* window.AndroidInterface.
Windows ==
    [flutter_inappwebview : BOOLEAN,
     webkit : {"undefined", "object", "messageHandlers"},
     AndroidInterface : BOOLEAN]

\* The events the script hands to notifyFlutter, timestamp: Date.now().
Timestamps == 1..MaxTimestamp
BridgeEvents ==
    [status : {"timeout", "success", "error"}, method : {""},
     timestamp : Timestamps]
    \cup [status : {"switch_auth"}, method : {"fingerprint", "otp"},
          timestamp : Timestamps]

\* JSON.stringify(message): a string, not the message object.
Stringify(message) == [json |-> message]

\* notifyFlutter(message), as what each channel and the debug log receive.
Undelivered ==
    [flutter_inappwebview |-> <<>>, webkit |-> <<>>, AndroidInterface |-> <<>>,
     log |-> <<>>]
authenticationCompleteToAll(window, message) ==
    [flutter_inappwebview |->
         IF window.flutter_inappwebview THEN <<message>> ELSE <<>>,
     webkit |-> IF window.webkit = "messageHandlers" THEN <<message>> ELSE <<>>,
     AndroidInterface |->
         IF window.AndroidInterface THEN <<Stringify(message)>> ELSE <<>>,
     log |-> <<message>>]
authenticationComplete(window, message) ==
    LET sent ==
          IF window.flutter_inappwebview
          THEN [Undelivered EXCEPT !.flutter_inappwebview = <<message>>]
          ELSE IF window.webkit = "messageHandlers"
          THEN [Undelivered EXCEPT !.webkit = <<message>>]
          ELSE IF window.AndroidInterface
          THEN [Undelivered EXCEPT !.AndroidInterface = <<Stringify(message)>>]
          ELSE Undelivered
    IN [sent EXCEPT !.log = <<message>>]

CallNotifyFlutter(window, message) ==
    /\ call' = CallRecord("notifyFlutter", <<window, message>>,
                          authenticationComplete(window, message))
    /\ UNCHANGED <<partVars, appVars>>

BridgeNext ==
    \E window \in Windows, message \in BridgeEvents :
        CallNotifyFlutter(window, message)

\* ---- the presenter
\* What updateUI shows: the classes of the oval border and of the status
\* display, the two texts, and state.currentState.
Displays ==
    [ovalClasses : {{"oval-border"}, {"oval-border", "no-face"},
                    {"oval-border", "error", "detected"}},
     statusClasses : {{"status"}, {"status", "visible", "error"}},
     statusText : {"", "Error processing frame"},
     hintText : {"Please allow camera access and refresh"},
     currentState : {WAITING, ERROR, AUTHENTICATED}]
DisplayStates == {WAITING, ANALYZING, AUTHENTICATED, ERROR}
DisplayMessages == {"", "Keep your face still", "Processing..."}
DisplayHints == {"", "Frame 1/3"}

\* One call of updateUI from its first line to its last, when the debounce
\* lets it pass and no other update runs meanwhile.
updateUICompleted(st, newState, message, hint) ==
    IF st.currentState = AUTHENTICATED THEN st
    ELSE ApplyState(RemovePreviousState(st), newState, message, hint)

\* updateUI(newState, message, hint) called on display st, and called again
\* when the first call has completed: the display after each.
CallUpdateUITwice(st, newState, message, hint) ==
    /\ call' = LET once == updateUICompleted(st, newState, message, hint)
               IN CallRecord("updateUI", <<st, newState, message, hint>>,
                             <<once, updateUICompleted(once, newState, message, hint)>>)
    /\ UNCHANGED <<partVars, appVars>>

PresenterNext ==
    \E st \in Displays, newState \in DisplayStates, message \in DisplayMessages,
       hint \in DisplayHints : CallUpdateUITwice(st, newState, message, hint)

GeometryNext ==
    \/ \E video \in VideoSizes, videoRect \in VideoRects, ovalRect \in OvalRects,
          screen \in Screens : CallAppCaptureFrame(video, videoRect, ovalRect, screen)
    \/ \E video \in VideoSizes, videoRect \in VideoRects, ovalRect \in OvalRects :
          CallPartCaptureFrame(video, videoRect, ovalRect)
    \/ \E video \in VideoSizes : CallUpdateOvalGuide(video)

FaceNext ==
    \/ \E ovalData \in Ovals, faceRect \in MaybeFaceRects :
          CallCheckFacePosition(ovalData, faceRect)
    \/ \E ovalData \in Ovals, faceRect \in MaybeFaceRects :
          CallCalculateHeadSizeRatio(ovalData, faceRect)

\* No geometry or classification function has been called.
NoCall == CallRecord("none", <<>>, <<>>)

Init == InitPart /\ InitApp /\ call = NoCall

Next ==
    \/ \E supported \in BOOLEAN : DOMContentLoaded(supported)
    \/ \E c \in BagToSet(cam), ok \in BOOLEAN, f \in Frames : CameraSettles(c, ok, f)
    \/ \E c \in BagToSet(chains), f \in Frames : LoopTimerFire(c, f)
    \/ \E c \in BagToSet(chains), o \in FetchOutcomes : FetchSettles(c, o)
    \/ \E c \in BagToSet(chains), o \in JsonOutcomes : JsonFails(c, o)
    \/ \E c \in BagToSet(chains), result \in Results : ProcessResult(c, result)
    \/ \E t \in sessionTimers : SessionTimerFire(t)
    \/ \E f \in Frames : ClickRetry(f)
    \/ ClickSwitchAuth
    \/ Tick

Spec == Init /\ [][Next]_vars

\* part_000 with the requests that a resetSession() overtakes marked, and
\* with the 'success' events sent since the last resetSession() remembered.
ObservedNext ==
    \/ \E supported \in BOOLEAN : DOMContentLoaded(supported)
    \/ \E c \in BagToSet(cam), ok \in BOOLEAN, f \in Frames : CameraSettles(c, ok, f)
    \/ \E c \in BagToSet(chains), f \in Frames : LoopTimerFire(c, f)
    \/ \E c \in BagToSet(chains), o \in FetchOutcomes : FetchSettles(c, o)
    \/ \E c \in BagToSet(chains), o \in JsonOutcomes : JsonFails(c, o)
    \/ \E c \in BagToSet(chains), result \in Results :
          ProcessResultObserved(c, result)
    \/ \E t \in sessionTimers : SessionTimerFire(t)
    \/ \E f \in Frames : ClickRetryObserved(f)
    \/ ClickSwitchAuth
    \/ Tick

ObservedSpec == Init /\ [][ObservedNext]_vars

AppSpec == Init /\ [][AppNext]_vars

\* app.js with the calls of updateUI and handleSuccessfulAuthentication.
UINext ==
    \/ AppRuns
    \/ \E newState \in UIPhases, message \in UIMessages : CallUpdateUI(newState, message)
    \/ \E name \in Names : CallHandleSuccessfulAuthentication(name)

UISpec == Init /\ [][UINext]_vars

\* The geometry functions, and the classification functions, called with
\* every input of the sets above.
GeometrySpec == Init /\ [][GeometryNext]_vars

FaceSpec == Init /\ [][FaceNext]_vars

\* updateUI applied twice to every display with every argument.
PresenterSpec == Init /\ [][PresenterNext]_vars

\* notifyFlutter called with every event on every page.
BridgeSpec == Init /\ [][BridgeNext]_vars


FairSpec ==
    /\ Spec
    /\ WF_vars(Tick)
    /\ WF_vars(\E t \in sessionTimers : SessionTimerFire(t))

\* ===================================================================
\*                             properties
\* ===================================================================

NonLiveResults == {r \in Results : NotLive(r)}
LiveResults == Results \ NonLiveResults

\* The step applies a server result drawn from R.
ResultStep(R) == \E c \in BagToSet(chains), r \in R : ProcessResult(c, r)

\* The step starts a session (initializeCamera's tail, or resetSession).
SessionStartStep ==
    \/ \E c \in BagToSet(cam), f \in Frames : CameraSettles(c, TRUE, f)
    \/ \E f \in Frames : ClickRetry(f)

\* C1: every result that is not classified live leaves liveFrameCount at 0,
\* and liveFrameCount decreases on no other event of a session.
C1_NonLiveResets ==
    [][/\ ResultStep(NonLiveResults) => liveFrameCount' = 0
       /\ liveFrameCount' < liveFrameCount
              => ResultStep(NonLiveResults) \/ SessionStartStep]_vars

\* C2: once currentState is AUTHENTICATED, no processed server result
\* changes currentState or liveFrameCount.
C2_AuthenticatedFrozen ==
    [][currentState = AUTHENTICATED /\ ResultStep(Results)
          => currentState' = currentState /\ liveFrameCount' = liveFrameCount]_vars

\* C3: once currentState is TIMEOUT it stays TIMEOUT until a new session
\* starts, and a frame result that arrives meanwhile changes neither
\* currentState nor liveFrameCount nor the displayed status.
C3_NothingAfterTimeout ==
    [][currentState = TIMEOUT
          => /\ ~SessionStartStep => currentState' = currentState
             /\ ResultStep(Results)
                   => UNCHANGED <<currentState, liveFrameCount, statusText>>]_vars

\* C4: in a running session with a single loop, each live result increments
\* liveFrameCount by exactly one, and the session becomes Authenticated
\* exactly when the count reaches REQUIRED_LIVE_FRAMES.
C4_EachLiveResultCounts ==
    [][(/\ isRunning /\ currentState = MONITORING
        /\ BagCardinality(chains) = 1
        /\ ResultStep(LiveResults))
          => /\ liveFrameCount' = liveFrameCount + 1
             /\ (currentState' = AUTHENTICATED
                    <=> liveFrameCount' = REQUIRED_LIVE_FRAMES)]_vars

\* C5: (app.js) every cycle of processFrame that ends while the session is
\* running and not authenticated schedules exactly one next call.
C5_EveryCycleReschedules ==
    event.ended # "none" /\ state.isRunning /\ state.currentState # AUTHENTICATED
        => event.scheduled = 1

\* The cycles of processFrame in progress: between isProcessing = true and
\* the end of the cycle a call is suspended only inside its updateUI.
CyclesInProgress ==
    LET B == [t \in {u \in BagToSet(tasks) : u.fn = "processFrame"} |-> tasks[t]]
    IN BagCardinality(B)

\* C6: (app.js) at most one cycle of processFrame is in progress, and a call
\* of processFrame made while one is in progress is refused at the guard.
C6_OneCycleAtATime ==
    [][/\ CyclesInProgress' <= 1
       /\ CyclesInProgress >= 1 /\ event'.call # "none"
              => event'.call = "refused"]_vars

C6_Witness == CyclesInProgress = 1 /\ event.call = "refused"

\* C7: at any time there is at most one loop chain: one pending scheduled
\* callback or one cycle in flight.
C7_OneLoopChain == BagCardinality(chains) <= 1

\* C8: at most one session timer is armed, and it is the one sessionTimer
\* names: no timer armed by an earlier startSession is left to fire.
C8_OneSessionTimer ==
    /\ Cardinality(sessionTimers) <= 1
    /\ \A t \in sessionTimers : t.cur
    /\ sessionTimers # {} => sessionTimer = "pending"

\* Both initializeCamera calls have started a session, the second of them
\* just now, and their two loops are alive.
C8_Witness ==
    /\ cam # EmptyBag /\ \A c \in BagToSet(cam) : c.pc = "returned"
    /\ BagCardinality(chains) = 2
    /\ isRunning /\ ~overlayActive
    /\ sessionTimers = {[rem |-> SESSION_TIMEOUT, cur |-> TRUE]}

\* C9: when the session timer fires and currentState is not AUTHENTICATED,
\* currentState becomes TIMEOUT, isRunning false, the loop callback that
\* authenticationLoop names is cleared and 'timeout' is sent; when it is
\* AUTHENTICATED nothing changes.  No step leads from AUTHENTICATED to
\* TIMEOUT.
C9_TimerFires ==
    [][/\ (\E t \in sessionTimers : SessionTimerFire(t))
            => IF currentState # AUTHENTICATED
               THEN /\ currentState' = TIMEOUT
                    /\ ~isRunning'
                    /\ authenticationLoop' = "null"
                    /\ \A c \in BagToSet(chains') : ~c.cur
                    /\ overlayActive'
                    /\ notified' = <<"timeout">>
               ELSE /\ UNCHANGED <<currentState, isRunning, liveFrameCount,
                                   authenticationLoop, chains, statusText,
                                   overlayActive>>
                    /\ notified' = <<>>
       /\ currentState = AUTHENTICATED => currentState' # TIMEOUT]_vars

C9_Witness ==
    /\ currentState = TIMEOUT /\ notified = <<"timeout">>
    /\ authenticationLoop = "null" /\ chains # EmptyBag

\* C10: under fairness of the clock and of the session timer, a running
\* session that is MONITORING eventually is AUTHENTICATED or TIMEOUT.
C10_SessionEnds ==
    (isRunning /\ currentState = MONITORING)
        ~> (currentState \in {AUTHENTICATED, TIMEOUT})

C10_Witness ==
    /\ currentState = TIMEOUT /\ ~isRunning
    /\ sessionTimer = "fired" /\ liveFrameCount > 0

\* C11: (app.js) once CONFIG.SESSION_TIMEOUT has elapsed since the session
\* started, and unless its session timer is still waiting to run, a session
\* that is not authenticated is halted (isRunning false) and has left the
\* waiting and analyzing states.
C11_SessionTimesOut ==
    (/\ state.sessionId # "null"
     /\ state.sessionAge >= CONFIG_SESSION_TIMEOUT
     /\ state.sessionTimer # "pending"
     /\ state.currentState # AUTHENTICATED)
        => ~state.isRunning /\ state.currentState \notin {WAITING, ANALYZING}

\* C12: (app.js) a call of updateUI with a target state other than
\* AUTHENTICATED that is made less than the debounce interval after the last
\* update that passed the debounce is not applied: it changes neither the
\* displayed message nor the current state nor the update in progress, which
\* when it is applied shows its own message and state.
C12_SecondUpdateDropped ==
    [][/\ \A newState \in UIPhases, message \in UIMessages :
            CallUpdateUI(newState, message) /\ state.uiAge < UI_DEBOUNCE
                => /\ state'.statusText = state.statusText
                   /\ state'.currentState = state.currentState
                   /\ tasks' = tasks
       /\ \A t \in BagToSet(tasks) :
            t.pc = "transition" /\ (\E cap \in Captures : UpdateUIResume(t, cap))
                => /\ state'.statusText = Displayed(t.message)
                   /\ state'.currentState = t.newState]_vars

\* The second of two calls with the same target state and different messages
\* has just been dropped, while the first waits for its transition.
C12_Witness ==
    /\ event.ui = "debounced" /\ event.uiState \in UIPhases
    /\ \E t \in BagToSet(tasks) :
          /\ t.fn = "external" /\ t.pc = "transition"
          /\ t.newState = event.uiState
          /\ t.message # event.uiMessage

\* C13: (app.js) when handleSuccessfulAuthentication, called with a
\* non-empty name, has run to its end, currentState is AUTHENTICATED.
C13_AuthenticationNotDebounced ==
    event.auth = "notified" => state.currentState = AUTHENTICATED

\* The region lies inside the video frame and is at most 85% of it each way.
InsideVideo(video, r) ==
    /\ r.x >= 0 /\ r.y >= 0
    /\ r.x + r.width <= video[1] /\ r.y + r.height <= video[2]
    /\ 100 * r.width <= 85 * video[1] /\ 100 * r.height <= 85 * video[2]

\* C14: every capture region produced (ovalData in either captureFrame,
\* window.ovalGuide in updateOvalGuide) lies inside the video frame and its
\* width and height are at most 0.85 of the frame's.
C14_RegionInsideVideo ==
    call.fn \in {"app.captureFrame", "captureFrame", "updateOvalGuide"}
        => InsideVideo(call.args[1], call.result)

\* C15: a call without a face rectangle raises no error: checkFacePosition
\* returns isValid = false with 'No face detected', and
\* calculateHeadSizeRatio returns 0, for every oval.
C15_NoFaceRect ==
    /\ call.fn = "checkFacePosition" /\ call.args[2] = <<>>
          => call.result = [isValid |-> FALSE, message |-> "No face detected"]
    /\ call.fn = "calculateHeadSizeRatio" /\ call.args[2] = <<>>
          => call.result.num = 0

C15_Witness ==
    /\ call.fn = "checkFacePosition" /\ call.args[2] = <<>>
    /\ call.args[1] \in Ovals /\ ~call.result.isValid

\* The verdict the order of checks prescribes for an oval and a face
\* rectangle r: the offsets are those of the face centre from the oval
\* centre, doubled; the area is compared with that of the ellipse.
ExpectedVerdict(oval, r) ==
    LET offX == (2 * r.x + r.width) - (2 * oval.x + oval.width)
        offY == (2 * r.y + r.height) - (2 * oval.y + oval.height)
        \* face area / (pi * half-width * half-height), times 100 * PI_NUM
        \* on the left and right of the comparisons below
        area == 400 * PI_DEN * r.width * r.height
        ellipse == PI_NUM * oval.width * oval.height
    IN CASE 2 * Abs(offX) > oval.width ->
                [isValid |-> FALSE,
                 message |-> IF offX < 0 THEN "Move your face right"
                                         ELSE "Move your face left"]
         [] 2 * Abs(offX) <= oval.width /\ 2 * Abs(offY) > oval.height ->
                [isValid |-> FALSE,
                 message |-> IF offY < 0 THEN "Move your face down"
                                         ELSE "Move your face up"]
         [] OTHER ->
                IF area < 15 * ellipse
                THEN [isValid |-> FALSE, message |-> "Move closer to the camera"]
                ELSE IF area > 85 * ellipse
                THEN [isValid |-> FALSE, message |-> "Move back from the camera"]
                ELSE [isValid |-> TRUE, message |-> "Face position is good"]

\* C16: for every oval and present face rectangle checkFacePosition returns
\* the first matching verdict, in the order horizontal, vertical, too far,
\* too close, valid; a value exactly at a threshold is accepted.
C16_VerdictOrder ==
    call.fn = "checkFacePosition" /\ call.args[2] # <<>>
        => call.result = ExpectedVerdict(call.args[1], call.args[2][1])

\* A face whose centre is off by exactly 50% of the half-width is valid.
C16_Witness ==
    /\ call.fn = "checkFacePosition" /\ call.args[2] # <<>>
    /\ LET oval == call.args[1]
           r == call.args[2][1]
       IN 2 * Abs((2 * r.x + r.width) - (2 * oval.x + oval.width)) = oval.width
    /\ call.result.isValid

MultiFaceResults == {r \in Results : r.liveness_message = MULTI_FACE_MESSAGE}

\* C17: a result carrying the multiple-faces message, whatever its other
\* fields, never increments liveFrameCount and never changes currentState
\* (so never leads to AUTHENTICATED); when it changes the status shown, it
\* shows the multiple-faces message and resets the counter.
C17_MultipleFacesFirst ==
    [][ResultStep(MultiFaceResults)
          => /\ liveFrameCount' \in {0, liveFrameCount}
             /\ currentState' = currentState
             /\ statusText' # statusText
                   => statusText' = MULTI_FACE_MESSAGE /\ liveFrameCount' = 0]_vars

\* A multiple-faces result has just been applied in a running session.
C17_Witness ==
    /\ statusText = MULTI_FACE_MESSAGE /\ statusAge = 0
    /\ liveFrameCount = 0 /\ isRunning /\ currentState = MONITORING

LowConfidenceResults == {r \in Results : r.confidence < MIN_LIVENESS_CONFIDENCE}

\* C18: a result whose confidence is below MIN_LIVENESS_CONFIDENCE is not
\* live, whatever its is_live flag: it leaves liveFrameCount at 0.
C18_ConfidenceDecides ==
    [][ResultStep(LowConfidenceResults) => liveFrameCount' = 0]_vars

\* C19: (app.js) a cycle whose frame capture failed ends without the state
\* machine in the ERROR state and, in a running session, with exactly one
\* retry scheduled.
C19_CaptureFailureRetries ==
    event.ended = "error"
        => /\ state.currentState # ERROR
           /\ state.isRunning => event.scheduled = 1

\* The step is the end of a fetch that failed: a non-2xx response or a
\* network failure.
TransportFailureStep ==
    \E c \in BagToSet(chains), o \in {"status", "reject"} : FetchSettles(c, o)

\* The pending startAuthentication callbacks.
PendingCallbacks(b) ==
    LET B == [c \in {d \in BagToSet(b) : d.pc = "timer"} |-> b[c]]
    IN BagCardinality(B)

\* C20: a transport failure in a cycle leaves liveFrameCount and
\* currentState unchanged and, while the session is running and not
\* authenticated, schedules exactly one next cycle.
C20_TransportFailure ==
    [][TransportFailureStep
          => /\ liveFrameCount' = liveFrameCount
             /\ currentState' = currentState
             /\ isRunning /\ currentState # AUTHENTICATED
                   => /\ PendingCallbacks(chains') = PendingCallbacks(chains) + 1
                      /\ BagCardinality(chains') = BagCardinality(chains)
                      /\ authenticationLoop' = "pending"]_vars

\* A non-2xx response has just ended a cycle of a running session with live
\* frames counted, and the next cycle is scheduled.
C20_Witness ==
    /\ notified = <<"error", "error">>
    /\ isRunning /\ currentState = MONITORING /\ liveFrameCount > 0
    /\ authenticationLoop = "pending"
    /\ BagIn([pc |-> "timer", rem |-> FRAME_INTERVAL, cur |-> TRUE,
              stale |-> FALSE], chains)

\* The step is the end of a cycle whose response carries an error field.
ErrorFieldStep == \E c \in BagToSet(chains) : JsonFails(c, "error")

\* C21: a response with a structured error field surfaces the message
\* (an 'error' event reaches the host), resets liveFrameCount to 0 and
\* schedules the next cycle.
C21_ErrorFieldResets ==
    [][ErrorFieldStep
          => /\ notified' = <<"error">>
             /\ liveFrameCount' = 0
             /\ PendingCallbacks(chains') = PendingCallbacks(chains) + 1
             /\ authenticationLoop' = "pending"]_vars

\* The step is a scheduled startAuthentication callback running.
ScheduledCycleStep ==
    \E c \in BagToSet(chains), f \in Frames : LoopTimerFire(c, f)

\* C22: the step that makes the session AUTHENTICATED clears the pending
\* loop callback and sets isRunning false; and a scheduled cycle that runs
\* in an AUTHENTICATED session returns at its top: it starts no request and
\* schedules nothing.
C22_AuthenticationStopsLoop ==
    [][/\ currentState # AUTHENTICATED /\ currentState' = AUTHENTICATED
             => /\ ~isRunning'
                /\ authenticationLoop' = "null"
                /\ \A c \in BagToSet(chains') : ~c.cur
       /\ currentState = AUTHENTICATED /\ ScheduledCycleStep
             => BagCardinality(chains') = BagCardinality(chains) - 1]_vars

\* C23: no AUTHENTICATED session has a stream whose tracks are not stopped,
\* and no stream got by a call of initializeCamera is live without being
\* the video's: the video element holds one stream, so at most one stream
\* is live.
C23_StreamReleased ==
    /\ currentState = AUTHENTICATED
          => \A c \in BagToSet(cam) : c.stream # "live"
    /\ \A c \in BagToSet(cam) : c.stream = "live" => cam[c] = 1

\* The channels in the order notifyFlutter tries them, and whether the page
\* has one.
Channels == <<"flutter_inappwebview", "webkit", "AndroidInterface">>
Available(window, i) ==
    CASE i = 1 -> window.flutter_inappwebview
      [] i = 2 -> window.webkit = "messageHandlers"
      [] i = 3 -> window.AndroidInterface

ResetSessionStep == \E f \in Frames : ClickRetry(f)

\* C25: resetSession, from MONITORING, TIMEOUT or AUTHENTICATED, leaves the
\* session in MONITORING with liveFrameCount = 0, isRunning true, one
\* session timer, armed with the full SESSION_TIMEOUT and named by the
\* handle, and one more loop started: a pending callback or a request.
C25_ResetSession ==
    [][ResetSessionStep
          => /\ currentState' = MONITORING
             /\ liveFrameCount' = 0
             /\ isRunning'
             /\ sessionTimers' = {[rem |-> SESSION_TIMEOUT, cur |-> TRUE]}
             /\ sessionTimer' = "pending"
             /\ BagCardinality(chains') = BagCardinality(chains) + 1]_vars

\* resetSession has just run: the second call of initializeCamera is still
\* waiting and the first started one loop only, so the second loop and the
\* fresh session timer are those of a retry after a timeout.
C25_Witness ==
    /\ cam = SetToBag({[pc |-> "returned", stream |-> "live"],
                       [pc |-> "awaiting", stream |-> "none"]})
    /\ BagCardinality(chains) = 2
    /\ sessionTimers = {[rem |-> SESSION_TIMEOUT, cur |-> TRUE]}
    /\ ~overlayActive /\ isRunning
    /\ currentState = MONITORING /\ liveFrameCount = 0

\* C26: updateUI applied twice with the same (state, message, hint), each
\* call completing and passing the debounce, leaves the oval classes, the
\* status classes, the status text, the hint text and currentState that
\* one application leaves.
C26_UpdateUIIdempotent ==
    call.fn = "updateUI" => call.result[2] = call.result[1]

\* An update that changed every part of the display (from the error display
\* to "analyzing"), applied twice.
C26_Witness ==
    /\ call.fn = "updateUI"
    /\ call.args[1].currentState = ERROR
    /\ call.args[1].ovalClasses = {"oval-border", "error", "detected"}
    /\ call.args[1].statusClasses = {"status", "visible", "error"}
    /\ call.args[1].statusText = "Error processing frame"
    /\ call.args[1].hintText = "Please allow camera access and refresh"
    /\ call.args[2] = ANALYZING /\ call.args[3] = "Keep your face still"
    /\ call.args[4] = "Frame 1/3"
    /\ call.result[1] =
          [ovalClasses |-> {"oval-border", "analyzing"},
           statusClasses |-> {"status", "analyzing", "visible"},
           statusText |-> "Keep your face still", hintText |-> "Frame 1/3",
           currentState |-> ANALYZING]

\* The step is the end of a cycle that failed: the capture threw, the fetch
\* failed, or the response had no usable result.
FailedCycleStep ==
    \/ \E c \in BagToSet(chains) : LoopTimerFire(c, "throw")
    \/ \E c \in BagToSet(chains), o \in {"status", "reject"} : FetchSettles(c, o)
    \/ \E c \in BagToSet(chains), o \in JsonOutcomes : JsonFails(c, o)

\* C27: a failed cycle changes the displayed status text only when a
\* debounce interval has passed since a failed cycle last changed it.
\* updateFacePosition has two intervals, STATUS_DEBOUNCE_TIME and half of
\* it; the shorter is taken here, and two changes closer than it are closer
\* than either.
C27_RetriesDebounced ==
    [][FailedCycleStep /\ statusText' # statusText
          => failureAge >= STATUS_DEBOUNCE_TIME \div 2]_vars

C29_TimeoutOrSuccess ==
    [][/\ currentState = TIMEOUT
             => /\ currentState' # AUTHENTICATED
                /\ ~Sent("success", notified')
       /\ currentState = AUTHENTICATED => ~Sent("timeout", notified')]_vars

\* The step is the result of a request whose frame was captured before the
\* last resetSession.
StaleResultStep ==
    \E c \in BagToSet(chains), result \in Results :
        c.stale /\ ProcessResultObserved(c, result)

\* C30: the response to a frame captured before resetSession changes
\* neither liveFrameCount nor currentState of the session that resetSession
\* started.
C30_StaleResponseIgnored ==
    [][StaleResultStep => UNCHANGED <<liveFrameCount, currentState>>]_vars

\* C31: in every state 0 <= liveFrameCount <= REQUIRED_LIVE_FRAMES, and no
\* step sends 'success' to the host when one has been sent since the last
\* call of resetSession.
C31_CountBoundedOneSuccess ==
    [][/\ liveFrameCount \in 0..REQUIRED_LIVE_FRAMES
       /\ liveFrameCount' \in 0..REQUIRED_LIVE_FRAMES
       /\ Sent("success", notified') => ~successSent]_vars

\* C32: (app.js) state.isProcessing is false whenever no cycle of
\* processFrame is in progress: a cycle that has ended, by a capture, by a
\* capture error or by the interval skip, has released the guard.
C32_GuardReleased == CyclesInProgress = 0 => ~state.isProcessing

\* The calls of updateUI that are between `transitioning = true` and the
\* finally block that clears it, and those in progress at all.
UpdatesApplying ==
    LET B == [t \in {u \in BagToSet(tasks) : u.pc \in {"transition", "settle"}}
                 |-> tasks[t]]
    IN BagCardinality(B)
UpdatesInProgress ==
    LET B == [t \in {u \in BagToSet(tasks) : u.pc \in {"busy", "transition", "settle"}}
                 |-> tasks[t]]
    IN BagCardinality(B)

\* C33: (app.js) at most one call of updateUI is between setting
\* transitioning and clearing it; when no call is in progress
\* state.currentState is the target of the call accepted last; and when that
\* call has set AUTHENTICATED, no call accepted before it and still in
\* progress changes currentState.
C33_UpdatesExclusiveOrdered ==
    [][/\ UpdatesApplying' <= 1
       /\ UpdatesInProgress' = 0 /\ state'.accepted # "none"
             => state'.currentState = state'.accepted
       /\ state.currentState = AUTHENTICATED /\ state.accepted = AUTHENTICATED
             => state'.currentState = AUTHENTICATED]_vars

\* How many of the events the step sent to the host have status st.
Times(st, events) == Cardinality({i \in 1..Len(events) : events[i] = st})

\* C34: a cycle of startAuthentication that fails, whether by a non-2xx
\* status, a network rejection, a response with an error field or a capture
\* exception, sends at most one 'error' event to the host (a step runs at
\* most one cycle).
C34_OneErrorPerFailure ==
    [][Times("error", notified') <= 1]_vars

=============================================================================
